---- MODULE Spec2Model ----
(***************************************************************************)
(* A model of APIClient.go (src/unnamed/part_000), the Check Point         *)
(* management API client:                                                  *)
(*                                                                         *)
(*   Spec       the auto-publish coordinator inside apiCall: several       *)
(*              goroutines share one ApiClient and run apiCall             *)
(*              concurrently.  Every access to the shared fields           *)
(*              totalCallsCtr, activeCallsCtr and duringPublish is a step  *)
(*              of its own unless a mutex makes a coarser step equivalent. *)
(*   SpecTask   waitForTask polling show-task against an arbitrary server. *)
(*   SpecQuery  genApiQuery / ApiQuery paging against a server.            *)
(*   SpecTrust  the head of apiCall, CheckFingerprint and the fingerprint  *)
(*              file, one goroutine, any file and server certificate.      *)
(*   SpecSession  commonLoginLogic and the session fields.                 *)
(*   SpecDisable  the coordinator with DisableAutoPublish.                 *)
(*   SpecLive   the coordinator under fair scheduling.                     *)
(*   SpecSeq    the coordinator with one sequential caller.                *)
(*   SpecFollow one call and its task follow-up: waitForTask and           *)
(*              waitForTasks.                                              *)
(***************************************************************************)
EXTENDS Integers, Sequences, FiniteSets, TLC

(***************************************************************************)
(* Bounds of the model.                                                    *)
(***************************************************************************)
\* goroutines sharing the client
NumCallers == 2
\* the configured autoPublishBatchSize (N > 0)
BatchSize == 2
\* calls started in one behaviour (caps the history counters)
MaxCalls == 5

Callers == 1 .. NumCallers

VARIABLES
    \* ---- ApiClient fields (lines 67-73)
    autoPublishBatchSize,
    totalCallsLock,      \* 0 = free, else the caller holding it
    autoPublishLock,     \* 0 = free, else the caller holding it
    duringPublish,
    activeCallsCtr,
    totalCallsCtr,
    \* ---- one apiCall per goroutine
    pc,                  \* where each caller stands in apiCall
    internal,            \* the `internal` argument of the caller's apiCall
    res,                 \* the caller's local res: "none", "succ" or "fail"
    publishRes,          \* the caller's local publishRes: "none", "succ", "fail", "err"
    lastRet,             \* what the last apiCall to return returned: res or "err"
    \* ---- history
    nStarted,            \* calls started
    nCompleted,          \* external calls whose request was answered
    nPublish,            \* internal publish requests issued
    \* ---- waitForTask (lines 682-736)
    pcT,                 \* where waitForTask stands
    taskResult,          \* the last show-task response (as the server sent it)
    attemptsCounter,
    taskErr,             \* waitForTask returned a non-nil error
    waitResult,          \* the APIResponse waitForTask returned
    lastGoodTasks,       \* history: sub-task statuses of the latest successful poll
    nPolls,              \* history: show-task requests sent
    errorPrints,         \* history: "ERROR: Failed to handle ..." lines printed
    \* ---- genApiQuery / ApiQuery (lines 529-669)
    pcQ,                 \* where the query stands
    srvObjects,          \* T, the number of objects the server holds
    iterations,
    finished,
    apiRes,              \* the response of the last round
    allObjects,          \* the accumulator of the container key
    serverResponse,      \* the slice genApiQuery builds
    errOutput,           \* *err_output: "unset", "nil" or "err"
    queryErr,            \* the error ApiQuery returned: "none" (not returned), "nil", "err"
    qRequests,           \* history: the limit and offset of every request sent
    qTransportErr,       \* history: some round ended in a transport error
    qFaithful,           \* history: every round was answered with its page
    qDelivered,          \* history: the objects each round's reply delivered
    \* ---- server trust and session (lines 47-66, 271-301, 804-974)
    ignoreServerCertificate,
    acceptServerCertificate,
    fingerprint,         \* c.fingerprint
    fpFile,              \* the fingerprint file: exists, parses, member list
    presented,           \* the fingerprint of the certificate the server presents
    sid,
    domain,
    apiVersion,
    tpc,                 \* "ready", or how the goroutine ended: "blocked", "panicked"
    lastOp,              \* history: the last operation and what it did
    \* ---- the task follow-up of apiCall (lines 429-465, 745-767)
    follow               \* one call: its arguments, where it stands, what it did

coordVars == << autoPublishBatchSize, totalCallsLock, autoPublishLock,
                duringPublish, activeCallsCtr, totalCallsCtr, pc, internal,
                res, publishRes, lastRet, nStarted, nCompleted, nPublish >>

taskVars == << pcT, taskResult, attemptsCounter, taskErr, waitResult,
               lastGoodTasks, nPolls, errorPrints >>

queryVars == << pcQ, srvObjects, iterations, finished, apiRes, allObjects,
                serverResponse, errOutput, queryErr, qRequests, qTransportErr, qFaithful,
                qDelivered >>

trustVars == << ignoreServerCertificate, acceptServerCertificate, fingerprint, fpFile,
                presented, sid, domain, apiVersion, tpc, lastOp >>

vars == << coordVars, taskVars, queryVars, trustVars, follow >>

\* what the steps of one component leave alone
CoordFrame == UNCHANGED << taskVars, queryVars, trustVars, follow >>

TaskFrame == UNCHANGED << coordVars, queryVars, trustVars, follow >>

QueryFrame == UNCHANGED << coordVars, taskVars, trustVars, follow >>

(***************************************************************************)
(* Helpers of the coordinator.                                             *)
(***************************************************************************)
\* lines 193-197
increaseActiveCalls(n) == n + 1

\* lines 199-203
decreaseActiveCalls(n) == n - 1

\* line 411: the gate is entered by external calls of a client with N > 0
GateApplies_IgnoresInternal(int, n) == n > 0

GateApplies(int, n) == ~int /\ n > 0

DecApplies_Always(int, n) == TRUE

\* lines 432, 440, 454, 467: the same condition guards every decrement
DecApplies(int, n) == ~int /\ n > 0

\* lines 414 and 416: the admission condition
Admissible(t, n, d) == t + 1 <= n /\ ~d

\* Go's t % n for t >= 0: the remainder of t by |n| (n = 0 panics; no caller
\* reaches line 469 with n = 0)
GoRem(t, n) == IF n > 0 THEN t % n ELSE IF n < 0 THEN t % (0 - n) ELSE 0

BatchFull_AnyCount(t, n) == t > 0

\* lines 469 and 471, first two conjuncts (both read totalCallsCtr)
BatchFull(t, n) == t > 0 /\ GoRem(t, n) = 0

\* a step inside apiCall that neither returns nor assigns res or publishRes
KeepResults == UNCHANGED << res, publishRes, lastRet >>

\* lines 495-496 (and 493): return res, nil; the locals are gone
ReturnRes(p) ==
    /\ lastRet' = res[p]
    /\ res' = [res EXCEPT ![p] = "none"]
    /\ publishRes' = [publishRes EXCEPT ![p] = "none"]

\* lines 110-131: the locks, counters and flag of a new client
CountersInit ==
    /\ totalCallsLock = 0
    /\ autoPublishLock = 0
    /\ duringPublish = FALSE
    /\ activeCallsCtr = 0
    /\ totalCallsCtr = 0
    /\ pc = [p \in Callers |-> "idle"]
    /\ internal = [p \in Callers |-> FALSE]
    /\ res = [p \in Callers |-> "none"]
    /\ publishRes = [p \in Callers |-> "none"]
    /\ lastRet = "none"
    /\ nStarted = 0
    /\ nCompleted = 0
    /\ nPublish = 0

\* line 126: a client with auto-publish of batch size N
CoordInit == autoPublishBatchSize = BatchSize /\ CountersInit

\* lines 209-212, called by any goroutine at any time; no lock is taken
DisableAutoPublish ==
    /\ autoPublishBatchSize' = 0 - 1
    /\ totalCallsCtr' = 0
    /\ UNCHANGED << totalCallsLock, autoPublishLock, duringPublish, activeCallsCtr,
                    pc, internal, nStarted, nCompleted, nPublish >>
    /\ KeepResults
    /\ CoordFrame

(***************************************************************************)
(* apiCall, one step per shared access.                                    *)
(***************************************************************************)
\* lines 329-411: a goroutine enters apiCall; an internal call (login,
\* show-task, publish, a query round) skips the gate and sends at once.
StartCall(p) ==
    /\ pc[p] = "idle"
    /\ nStarted < MaxCalls
    /\ \E i \in BOOLEAN :
        /\ internal' = [internal EXCEPT ![p] = i]
        /\ pc' = [pc EXCEPT ![p] =
                    IF GateApplies(i, autoPublishBatchSize) THEN "gate" ELSE "inflight"]
    /\ nStarted' = nStarted + 1
    /\ UNCHANGED << autoPublishBatchSize, totalCallsLock, autoPublishLock,
                    duringPublish, activeCallsCtr, totalCallsCtr, nCompleted, nPublish >>
    /\ KeepResults
    /\ CoordFrame

\* lines 413-416, 420-424: take totalCallsLock and evaluate the admission
\* condition.  A caller that finds it false releases the lock, sleeps and
\* tries again, which changes nothing: it waits in "gate".
AdmitCheck(p) ==
    /\ pc[p] = "gate"
    /\ totalCallsLock = 0
    /\ Admissible(totalCallsCtr, autoPublishBatchSize, duringPublish)
    /\ totalCallsLock' = p
    /\ pc' = [pc EXCEPT ![p] = "g417"]
    /\ UNCHANGED << autoPublishBatchSize, autoPublishLock, duringPublish,
                    activeCallsCtr, totalCallsCtr, internal, nStarted, nCompleted, nPublish >>
    /\ KeepResults
    /\ CoordFrame

\* lines 417-420: count the call and release totalCallsLock
AdmitInc(p) ==
    /\ pc[p] = "g417"
    /\ totalCallsCtr' = totalCallsCtr + 1
    /\ totalCallsLock' = 0
    /\ pc' = [pc EXCEPT ![p] = "g426"]
    /\ UNCHANGED << autoPublishBatchSize, autoPublishLock, duringPublish,
                    activeCallsCtr, internal, nStarted, nCompleted, nPublish >>
    /\ KeepResults
    /\ CoordFrame

\* lines 426-429: increaseActiveCalls, then the request is sent
IncreaseAndSend(p) ==
    /\ pc[p] = "g426"
    /\ activeCallsCtr' = increaseActiveCalls(activeCallsCtr)
    /\ pc' = [pc EXCEPT ![p] = "inflight"]
    /\ UNCHANGED << autoPublishBatchSize, totalCallsLock, autoPublishLock,
                    duringPublish, totalCallsCtr, internal, nStarted, nCompleted, nPublish >>
    /\ KeepResults
    /\ CoordFrame

\* lines 429-468: the request is answered.  "err" is a transport error, a
\* decoding error or an error of the task poller (lines 431-436, 439-444,
\* 453-458): decreaseActiveCalls and return the error.  "succ" and "fail"
\* are a response, successful or not: it is kept in res, decreaseActiveCalls
\* runs at line 468 and the publish trigger follows.  An internal call, or a
\* call of a client without auto-publish, returns without touching the
\* counters (what an internal call returns is not recorded).
Complete(p) ==
    /\ pc[p] = "inflight"
    /\ \E outcome \in {"succ", "fail", "err"} :
        /\ pc' = [pc EXCEPT ![p] =
                    IF outcome # "err" /\ DecApplies(internal[p], autoPublishBatchSize)
                    THEN "p469a" ELSE "idle"]
        /\ res' = [res EXCEPT ![p] =
                     IF outcome # "err" /\ DecApplies(internal[p], autoPublishBatchSize)
                     THEN outcome ELSE "none"]
        /\ lastRet' = IF internal[p] THEN lastRet
                      ELSE IF outcome # "err" /\ DecApplies(internal[p], autoPublishBatchSize)
                      THEN lastRet ELSE outcome
    /\ UNCHANGED publishRes
    /\ activeCallsCtr' = IF DecApplies(internal[p], autoPublishBatchSize)
                         THEN decreaseActiveCalls(activeCallsCtr)
                         ELSE activeCallsCtr
    /\ nCompleted' = IF internal[p] THEN nCompleted ELSE nCompleted + 1
    /\ UNCHANGED << autoPublishBatchSize, totalCallsLock, autoPublishLock,
                    duringPublish, totalCallsCtr, internal, nStarted, nPublish >>
    /\ CoordFrame

\* line 469, the reads of totalCallsCtr (unlocked)
PreCheckTotal(p) ==
    /\ pc[p] = "p469a"
    /\ pc' = [pc EXCEPT ![p] =
                IF BatchFull(totalCallsCtr, autoPublishBatchSize) THEN "p469b" ELSE "idle"]
    /\ IF BatchFull(totalCallsCtr, autoPublishBatchSize) THEN KeepResults ELSE ReturnRes(p)
    /\ UNCHANGED << autoPublishBatchSize, totalCallsLock, autoPublishLock, duringPublish,
                    activeCallsCtr, totalCallsCtr, internal, nStarted, nCompleted, nPublish >>
    /\ CoordFrame

\* line 469, the read of duringPublish (unlocked)
PreCheckFlag(p) ==
    /\ pc[p] = "p469b"
    /\ pc' = [pc EXCEPT ![p] = IF ~duringPublish THEN "p470" ELSE "idle"]
    /\ IF ~duringPublish THEN KeepResults ELSE ReturnRes(p)
    /\ UNCHANGED << autoPublishBatchSize, totalCallsLock, autoPublishLock, duringPublish,
                    activeCallsCtr, totalCallsCtr, internal, nStarted, nCompleted, nPublish >>
    /\ CoordFrame

\* lines 470-471 (and 491): take autoPublishLock and read totalCallsCtr again
RecheckTotal(p) ==
    /\ pc[p] = "p470"
    /\ autoPublishLock = 0
    /\ IF BatchFull(totalCallsCtr, autoPublishBatchSize)
       THEN /\ autoPublishLock' = p
            /\ pc' = [pc EXCEPT ![p] = "p471b"]
            /\ KeepResults
       ELSE /\ autoPublishLock' = 0
            /\ pc' = [pc EXCEPT ![p] = "idle"]
            /\ ReturnRes(p)
    /\ UNCHANGED << autoPublishBatchSize, totalCallsLock, duringPublish,
                    activeCallsCtr, totalCallsCtr, internal, nStarted, nCompleted, nPublish >>
    /\ CoordFrame

RecheckFlag_Ignored(p) ==
    /\ pc[p] = "p471b"
    /\ duringPublish' = TRUE
    /\ pc' = [pc EXCEPT ![p] = "drain"]
    /\ KeepResults
    /\ autoPublishLock' = 0
    /\ UNCHANGED << autoPublishBatchSize, totalCallsLock,
                    activeCallsCtr, totalCallsCtr, internal, nStarted, nCompleted, nPublish >>
    /\ CoordFrame

\* lines 471-473 (and 491): read duringPublish under autoPublishLock; when it
\* is clear set it; release the lock either way
RecheckFlag(p) ==
    /\ pc[p] = "p471b"
    /\ IF ~duringPublish
       THEN /\ duringPublish' = TRUE
            /\ pc' = [pc EXCEPT ![p] = "drain"]
            /\ KeepResults
       ELSE /\ duringPublish' = duringPublish
            /\ pc' = [pc EXCEPT ![p] = "idle"]
            /\ ReturnRes(p)
    /\ autoPublishLock' = 0
    /\ UNCHANGED << autoPublishBatchSize, totalCallsLock,
                    activeCallsCtr, totalCallsCtr, internal, nStarted, nCompleted, nPublish >>
    /\ CoordFrame

\* lines 474-481: the drain loop ends when it reads activeCallsCtr <= 0, and
\* the internal publish request is issued
DrainAndPublish(p) ==
    /\ pc[p] = "drain"
    /\ ~(activeCallsCtr > 0)
    /\ pc' = [pc EXCEPT ![p] = "publishing"]
    /\ nPublish' = nPublish + 1
    /\ UNCHANGED << autoPublishBatchSize, totalCallsLock, autoPublishLock, duringPublish,
                    activeCallsCtr, totalCallsCtr, internal, nStarted, nCompleted >>
    /\ KeepResults
    /\ CoordFrame

PublishDone_RetriesFailure(p) ==
    /\ pc[p] = "publishing"
    /\ ~GateApplies(TRUE, autoPublishBatchSize)
    /\ \E outcome \in {"succ", "fail", "err"} :
         /\ publishRes' = [publishRes EXCEPT ![p] = outcome]
         /\ pc' = [pc EXCEPT ![p] = IF outcome = "succ" THEN "p488" ELSE "drain"]
    /\ UNCHANGED << res, lastRet >>
    /\ UNCHANGED << autoPublishBatchSize, totalCallsLock, autoPublishLock, duringPublish,
                    activeCallsCtr, totalCallsCtr, internal, nStarted, nCompleted, nPublish >>
    /\ CoordFrame

\* lines 481-487: the publish call is an internal call (line 481), which
\* line 411 lets past the gate; it returns a response, successful or not, or
\* an error (dropped: publishRes is then APIResponse{}); the outcome is only
\* printed
PublishDone(p) ==
    /\ pc[p] = "publishing"
    /\ ~GateApplies(TRUE, autoPublishBatchSize)
    /\ pc' = [pc EXCEPT ![p] = "p488"]
    /\ \E outcome \in {"succ", "fail", "err"} :
         publishRes' = [publishRes EXCEPT ![p] = outcome]
    /\ UNCHANGED << res, lastRet >>
    /\ UNCHANGED << autoPublishBatchSize, totalCallsLock, autoPublishLock, duringPublish,
                    activeCallsCtr, totalCallsCtr, internal, nStarted, nCompleted, nPublish >>
    /\ CoordFrame

\* line 488 (no lock held)
ResetTotal(p) ==
    /\ pc[p] = "p488"
    /\ totalCallsCtr' = 0
    /\ pc' = [pc EXCEPT ![p] = "p489"]
    /\ UNCHANGED << autoPublishBatchSize, totalCallsLock, autoPublishLock, duringPublish,
                    activeCallsCtr, internal, nStarted, nCompleted, nPublish >>
    /\ KeepResults
    /\ CoordFrame

\* lines 489-496 (no lock held)
ClearFlag(p) ==
    /\ pc[p] = "p489"
    /\ duringPublish' = FALSE
    /\ pc' = [pc EXCEPT ![p] = "idle"]
    /\ ReturnRes(p)
    /\ UNCHANGED << autoPublishBatchSize, totalCallsLock, autoPublishLock,
                    activeCallsCtr, totalCallsCtr, internal, nStarted, nCompleted, nPublish >>
    /\ CoordFrame

CoordNext ==
    \E p \in Callers :
        \/ StartCall(p)
        \/ AdmitCheck(p)
        \/ AdmitInc(p)
        \/ IncreaseAndSend(p)
        \/ Complete(p)
        \/ PreCheckTotal(p)
        \/ PreCheckFlag(p)
        \/ RecheckTotal(p)
        \/ RecheckFlag(p)
        \/ DrainAndPublish(p)
        \/ PublishDone(p)
        \/ ResetTotal(p)
        \/ ClearFlag(p)


(***************************************************************************)
(* The task poller: waitForTask (lines 682-736) against a server that may  *)
(* answer a show-task request in any way.                                  *)
(***************************************************************************)
\* sub-tasks in one show-task response
MaxSubTasks == 2
\* show-task requests of one waitForTask
MaxPolls == 7
\* printed error lines counted (the counter saturates)
MaxPrints == 2
\* line 700: retries of an unsuccessful poll
MaxAttempts == 5

\* line 33
InProgress == "in progress"

\* "none": the sub-task carries no status field
Statuses == {InProgress, "succeeded", "failed", "partially succeeded", "none"}

StatusSeqs == UNION {[1 .. n -> Statuses] : n \in 0 .. MaxSubTasks}

\* APIResponse{} (lines 435, 694, 706)
EmptyResponse == [Success |-> FALSE, StatusCode |-> "", tasks |-> << >>, ErrorMsg |-> ""]

\* what apiCall("show-task", ...) can return without an error: an
\* unsuccessful response (line 447 gives it the generic message) or a
\* successful one listing the sub-tasks
PollResponses ==
    {[Success |-> FALSE, StatusCode |-> "500", tasks |-> << >>, ErrorMsg |-> "generic"]}
    \cup {[Success |-> TRUE, StatusCode |-> "200", tasks |-> ts, ErrorMsg |-> ""] :
            ts \in StatusSeqs}

checkTasksStatus_FailedOnly(r) ==
    IF \E i \in 1 .. Len(r.tasks) : r.tasks[i] = "failed"
    THEN [r EXCEPT !.Success = FALSE, !.StatusCode = "", !.ErrorMsg = "generic"]
    ELSE r

\* lines 776-787
checkTasksStatus(r) ==
    IF \E i \in 1 .. Len(r.tasks) :
          r.tasks[i] = "failed" \/ r.tasks[i] = "partially succeeded"
    THEN [r EXCEPT !.Success = FALSE, !.StatusCode = "", !.ErrorMsg = "generic"]
    ELSE r

completedTasks_WrongString(ts) ==
    Cardinality({i \in 1 .. Len(ts) : ts[i] # "none" /\ ts[i] # "in-progress"})

\* lines 715-723: sub-tasks that have a status other than "in progress"
completedTasks(ts) ==
    Cardinality({i \in 1 .. Len(ts) : ts[i] # "none" /\ ts[i] # InProgress})

\* lines 716-718
totalTasks(ts) == Len(ts)

TaskIdle ==
    /\ pcT = "idle"
    /\ taskResult = EmptyResponse
    /\ attemptsCounter = 0
    /\ taskErr = FALSE
    /\ waitResult = EmptyResponse
    /\ lastGoodTasks = << >>
    /\ nPolls = 0
    /\ errorPrints = 0

\* lines 684-688: waitForTask was entered
TaskInit ==
    /\ pcT = "poll"
    /\ taskResult = EmptyResponse
    /\ attemptsCounter = 0
    /\ taskErr = FALSE
    /\ waitResult = EmptyResponse
    /\ lastGoodTasks = << >>
    /\ nPolls = 0
    /\ errorPrints = 0

\* the bookkeeping of one answered show-task request
Polled(r) ==
    /\ taskResult' = r
    /\ lastGoodTasks' = IF r.Success THEN r.tasks ELSE lastGoodTasks
    /\ nPolls' = nPolls + 1

\* lines 691, 697: the poll at the head of the outer loop is answered
TPoll ==
    /\ pcT = "poll"
    /\ nPolls < MaxPolls
    /\ \E r \in PollResponses : Polled(r)
    /\ attemptsCounter' = 0
    /\ pcT' = "retry"
    /\ UNCHANGED << taskErr, waitResult, errorPrints >>
    /\ TaskFrame

\* lines 691-695: the poll ends in a transport error
TPollError ==
    /\ pcT = "poll"
    /\ nPolls < MaxPolls
    /\ nPolls' = nPolls + 1
    /\ taskErr' = TRUE
    /\ waitResult' = EmptyResponse
    /\ pcT' = "done"
    /\ UNCHANGED << taskResult, attemptsCounter, lastGoodTasks, errorPrints >>
    /\ TaskFrame

\* lines 699-703: the last poll was unsuccessful and attempts are left
TRetry ==
    /\ pcT = "retry"
    /\ ~taskResult.Success
    /\ attemptsCounter < MaxAttempts
    /\ nPolls < MaxPolls
    /\ attemptsCounter' = attemptsCounter + 1
    /\ \E r \in PollResponses : Polled(r)
    /\ UNCHANGED << pcT, taskErr, waitResult, errorPrints >>
    /\ TaskFrame

\* lines 699-707: the retried poll ends in a transport error
TRetryError ==
    /\ pcT = "retry"
    /\ ~taskResult.Success
    /\ attemptsCounter < MaxAttempts
    /\ nPolls < MaxPolls
    /\ attemptsCounter' = attemptsCounter + 1
    /\ nPolls' = nPolls + 1
    /\ taskErr' = TRUE
    /\ waitResult' = EmptyResponse
    /\ pcT' = "done"
    /\ UNCHANGED << taskResult, lastGoodTasks, errorPrints >>
    /\ TaskFrame

\* lines 699, 709-713: no attempt is left; the else branch prints and the
\* loop `for taskResult.Success == false` goes round again
TPrintError ==
    /\ pcT = "retry"
    /\ ~taskResult.Success
    /\ ~(attemptsCounter < MaxAttempts)
    /\ errorPrints' = IF errorPrints < MaxPrints THEN errorPrints + 1 ELSE errorPrints
    /\ UNCHANGED << pcT, taskResult, attemptsCounter, taskErr, waitResult,
                    lastGoodTasks, nPolls >>
    /\ TaskFrame

\* lines 715-729: the poll was successful; count the sub-tasks
TCount ==
    /\ pcT = "retry"
    /\ taskResult.Success
    /\ pcT' = IF completedTasks(taskResult.tasks) = totalTasks(taskResult.tasks)
              THEN "check" ELSE "sleep"
    /\ UNCHANGED << taskResult, attemptsCounter, taskErr, waitResult,
                    lastGoodTasks, nPolls, errorPrints >>
    /\ TaskFrame

\* lines 728-731: sleep the poll interval, then poll again
TSleep ==
    /\ pcT = "sleep"
    /\ pcT' = "poll"
    /\ UNCHANGED << taskResult, attemptsCounter, taskErr, waitResult,
                    lastGoodTasks, nPolls, errorPrints >>
    /\ TaskFrame

\* lines 733-734
TFinish ==
    /\ pcT = "check"
    /\ waitResult' = checkTasksStatus(taskResult)
    /\ pcT' = "done"
    /\ UNCHANGED << taskResult, attemptsCounter, taskErr, lastGoodTasks, nPolls, errorPrints >>
    /\ TaskFrame

TaskNext ==
    \/ TPoll
    \/ TPollError
    \/ TRetry
    \/ TRetryError
    \/ TPrintError
    \/ TCount
    \/ TSleep
    \/ TFinish


(***************************************************************************)
(* The pagination engine: genApiQuery (lines 582-669) called by ApiQuery   *)
(* (lines 529-566) with one container key, against a server holding        *)
(* srvObjects objects numbered 1 .. srvObjects.                            *)
(***************************************************************************)
\* the most objects the server holds
MaxObjects == 120
\* rounds of one query (the code has no cap)
MaxRounds == 4
\* line 35 (objLimit, line 584)
Limit == 50
\* the response has no "to" field
NoTo == -1

Min(a, b) == IF a <= b THEN a ELSE b

\* APIResponse{}: what apiCall returns beside an error
EmptyQueryResponse ==
    [Success |-> FALSE, hasKey |-> FALSE, objects |-> << >>, total |-> 0, to |-> NoTo]

\* the server's page for the round at offset o: the objects o+1 .. min(o+50,T)
\* with total = T and to = min(o+50,T)
Page(o, T) ==
    LET last == Min(o + Limit, T)
        n == IF last > o THEN last - o ELSE 0
    IN [Success |-> TRUE, hasKey |-> TRUE, objects |-> [i \in 1 .. n |-> o + i],
        total |-> T, to |-> last]

\* what one round's apiCall can return: the page, the page without "to", a
\* successful response without the container key (with no other field, or
\* with the "total" and "to" of the page), an unsuccessful response (it
\* carries no container key), a transport error, or, after the first round,
\* the first page once more (a server that ignores the offset)
Replies(o, T) ==
    { [err |-> FALSE, faithful |-> TRUE, res |-> Page(o, T)],
      [err |-> FALSE, faithful |-> FALSE, res |-> [Page(o, T) EXCEPT !.to = NoTo]],
      [err |-> FALSE, faithful |-> FALSE,
       res |-> [EmptyQueryResponse EXCEPT !.Success = TRUE]],
      [err |-> FALSE, faithful |-> FALSE,
       res |-> [Page(o, T) EXCEPT !.hasKey = FALSE, !.objects = << >>]],
      [err |-> FALSE, faithful |-> FALSE, res |-> EmptyQueryResponse],
      [err |-> TRUE, faithful |-> FALSE, res |-> EmptyQueryResponse] }
    \cup (IF o > 0
          THEN {[err |-> FALSE, faithful |-> FALSE, res |-> Page(0, T)]}
          ELSE {})

Offset_NoLimit(it) == it

\* lines 602, 656: payload["offset"]
Offset(it) == it * Limit

\* lines 601-603, 655-657: the request of round it + 1
Request(it) == [limit |-> Limit, offset |-> Offset(it)]

receivedObjects_MissingIsTotal(r) == IF r.to = NoTo THEN r.total ELSE r.to

\* lines 633-637: a missing "to" counts as 0
receivedObjects(r) == IF r.to = NoTo THEN 0 ELSE r.to

QueryIdle ==
    /\ pcQ = "idle"
    /\ srvObjects = 0
    /\ iterations = 0
    /\ finished = FALSE
    /\ apiRes = EmptyQueryResponse
    /\ allObjects = << >>
    /\ serverResponse = << >>
    /\ errOutput = "nil"
    /\ queryErr = "none"
    /\ qRequests = << >>
    /\ qTransportErr = FALSE
    /\ qFaithful = TRUE
    /\ qDelivered = << >>

\* lines 531-538, 584-600: ApiQuery was called
QueryInit ==
    /\ pcQ = "start"
    /\ srvObjects \in 0 .. MaxObjects
    /\ iterations = 0
    /\ finished = FALSE
    /\ apiRes = EmptyQueryResponse
    /\ allObjects = << >>
    /\ serverResponse = << >>
    /\ errOutput = "nil"
    /\ queryErr = "none"
    /\ qRequests = << >>
    /\ qTransportErr = FALSE
    /\ qFaithful = TRUE
    /\ qDelivered = << >>

QFirst_KeyIgnored ==
    /\ pcQ = "start"
    /\ qRequests' = Append(qRequests, Request(iterations))
    /\ \E a \in Replies(Offset(iterations), srvObjects) :
        /\ apiRes' = a.res
        /\ qTransportErr' = a.err
        /\ qFaithful' = a.faithful
        /\ qDelivered' = Append(qDelivered, a.res.objects)
        /\ finished' = FALSE
        /\ serverResponse' = << >>
    /\ pcQ' = "loop"
    /\ UNCHANGED << srvObjects, iterations, allObjects, errOutput, queryErr >>
    /\ QueryFrame

\* lines 601-624: the first round, and the look for the container key.  An
\* error of this round is only printed (lines 606-608): apiRes is then
\* APIResponse{}, which has no container key.
QFirst ==
    /\ pcQ = "start"
    /\ qRequests' = Append(qRequests, Request(iterations))
    /\ \E a \in Replies(Offset(iterations), srvObjects) :
        /\ apiRes' = a.res
        /\ qTransportErr' = a.err
        /\ qFaithful' = a.faithful
        /\ qDelivered' = Append(qDelivered, a.res.objects)
        /\ finished' = ~a.res.hasKey
        /\ serverResponse' = IF a.res.hasKey THEN << >> ELSE << a.res >>
    /\ pcQ' = "loop"
    /\ UNCHANGED << srvObjects, iterations, allObjects, errOutput, queryErr >>
    /\ QueryFrame

\* lines 626-630: an unsuccessful response inside the loop ends the process
QExit ==
    /\ pcQ = "loop"
    /\ ~finished
    /\ ~apiRes.Success
    /\ pcQ' = "exited"
    /\ UNCHANGED << srvObjects, iterations, finished, apiRes, allObjects, serverResponse,
                    errOutput, queryErr, qRequests, qTransportErr, qFaithful,
                    qDelivered >>
    /\ QueryFrame

\* line 642: the type assertion on a missing container key panics
QPanic ==
    /\ pcQ = "loop"
    /\ ~finished
    /\ apiRes.Success
    /\ ~apiRes.hasKey
    /\ pcQ' = "panicked"
    /\ UNCHANGED << srvObjects, iterations, finished, apiRes, allObjects, serverResponse,
                    errOutput, queryErr, qRequests, qTransportErr, qFaithful,
                    qDelivered >>
    /\ QueryFrame

Accumulated_RoundOnly == apiRes.objects

\* lines 639-649: accumulate the round's objects, rewrite the response's
\* container and append the response
Accumulated == allObjects \o apiRes.objects

Rewritten == [apiRes EXCEPT !.objects = Accumulated]

\* lines 632-653: a round whose total equals its to is the last
QRoundLast ==
    /\ pcQ = "loop"
    /\ ~finished
    /\ apiRes.Success
    /\ apiRes.hasKey
    /\ apiRes.total = receivedObjects(apiRes)
    /\ allObjects' = Accumulated
    /\ apiRes' = Rewritten
    /\ serverResponse' = Append(serverResponse, Rewritten)
    /\ pcQ' = "ret"
    /\ UNCHANGED << srvObjects, iterations, finished, errOutput, queryErr,
                    qRequests, qTransportErr, qFaithful, qDelivered >>
    /\ QueryFrame

\* lines 632-665: any other round is followed by the request of the next
\* offset; a transport error there returns nil with *err_output set
QRoundMore ==
    /\ pcQ = "loop"
    /\ ~finished
    /\ apiRes.Success
    /\ apiRes.hasKey
    /\ apiRes.total # receivedObjects(apiRes)
    /\ iterations + 1 < MaxRounds
    /\ allObjects' = Accumulated
    /\ iterations' = iterations + 1
    /\ qRequests' = Append(qRequests, Request(iterations + 1))
    /\ \E a \in Replies(Offset(iterations + 1), srvObjects) :
        /\ qTransportErr' = (qTransportErr \/ a.err)
        /\ qFaithful' = (qFaithful /\ a.faithful)
        /\ qDelivered' = Append(qDelivered, a.res.objects)
        /\ IF a.err
           THEN /\ errOutput' = "err"
                /\ serverResponse' = << >>
                /\ apiRes' = a.res
                /\ pcQ' = "apiquery"
           ELSE /\ errOutput' = errOutput
                /\ serverResponse' = Append(serverResponse, Rewritten)
                /\ apiRes' = a.res
                /\ pcQ' = "loop"
    /\ UNCHANGED << srvObjects, finished, queryErr >>
    /\ QueryFrame

\* lines 666-668
QReturn ==
    /\ \/ pcQ = "loop" /\ finished
       \/ pcQ = "ret"
    /\ errOutput' = "nil"
    /\ pcQ' = "apiquery"
    /\ UNCHANGED << srvObjects, iterations, finished, apiRes, allObjects, serverResponse,
                    queryErr, qRequests, qTransportErr, qFaithful, qDelivered >>
    /\ QueryFrame

\* lines 539-564: ApiQuery returns the error genApiQuery reported, or the
\* last response with a nil error
ApiQueryReturn ==
    /\ pcQ = "apiquery"
    /\ queryErr' = IF errOutput = "err" THEN "err" ELSE "nil"
    /\ pcQ' = "done"
    /\ UNCHANGED << srvObjects, iterations, finished, apiRes, allObjects, serverResponse,
                    errOutput, qRequests, qTransportErr, qFaithful, qDelivered >>
    /\ QueryFrame

QueryNext ==
    \/ QFirst
    \/ QExit
    \/ QPanic
    \/ QRoundLast
    \/ QRoundMore
    \/ QReturn
    \/ ApiQueryReturn

(***************************************************************************)
(* Server trust and session: the head of apiCall (lines 329-350),          *)
(* CheckFingerprint and the fingerprint file (lines 804-974), and          *)
(* commonLoginLogic (lines 271-301).  One goroutine; a fingerprint is a    *)
(* sequence of characters; the fingerprint file is the member list of its  *)
(* JSON object.                                                            *)
(***************************************************************************)
\* c.server, and the key order json.Marshal writes (sorted keys)
server == "X"

ServerOrder == << "X", "Y" >>

Servers == {ServerOrder[i] : i \in 1 .. Len(ServerOrder)}

\* the fingerprints of the model: none, AB, A:B (AB with a colon) and CD
FPs == { << >>, << "A", "B" >>, << "A", ":", "B" >>, << "C", "D" >> }

\* lines 826: strings.Replace(fp, ":", "", -1)
StripColons(fp) == SelectSeq(fp, LAMBDA ch : ch # ":")

\* a Go map[string]string with no entry
EmptyMap == [k \in {} |-> << >>]

\* line 899, json.Unmarshal into a map: the members in order, a later member
\* of the same key replacing the earlier one
Unmarshal(members) ==
    LET keys == {members[i][1] : i \in 1 .. Len(members)}
        lastOf(k) == CHOOSE i \in 1 .. Len(members) :
                        /\ members[i][1] = k
                        /\ \A j \in i + 1 .. Len(members) : members[j][1] # k
    IN [k \in keys |-> members[lastOf(k)][2]]

\* line 939, json.Marshal of a map: one member per key, keys sorted
Marshal(objmap) ==
    LET ks == SelectSeq(ServerOrder, LAMBDA k : k \in DOMAIN objmap)
    IN [i \in 1 .. Len(ks) |-> << ks[i], objmap[ks[i]] >>]

\* the file written by file.WriteString("{}") (line 971)
EmptyJsonFile == [exists |-> TRUE, valid |-> TRUE, members |-> << >>]

\* lines 958-974: the file is created holding {} when it does not exist
createEmptyJsonFile(file) == IF ~file.exists THEN EmptyJsonFile ELSE file

\* lines 885-909: the file after createEmptyJsonFile, and its content as a
\* map, or an error when the content does not parse
fpFileToMap(file) ==
    LET f == createEmptyJsonFile(file)
    IN [file |-> f,
        err |-> ~f.valid,
        objmap |-> IF f.valid THEN Unmarshal(f.members) ELSE EmptyMap]

\* the result of a save: the file, the error, whether WriteFile ran
Saved(file, e, w) == [file |-> file, err |-> e, wrote |-> w]

\* lines 934-948: the map with the entry of c.server set to fp, written back
WriteEntry(m, fp) ==
    Saved([m.file EXCEPT !.members =
              Marshal([k \in DOMAIN m.objmap \cup {server} |->
                          IF k = server THEN fp ELSE m.objmap[k]])],
          FALSE, TRUE)

saveMap_NoShortCircuit(m, fp) ==
    IF m.err THEN Saved(m.file, TRUE, FALSE) ELSE WriteEntry(m, fp)

saveMap_Overwrite(m, fp) ==
    IF m.err
    THEN Saved(m.file, TRUE, FALSE)
    ELSE IF server \in DOMAIN m.objmap /\ m.objmap[server] = fp
         THEN Saved(m.file, FALSE, FALSE)
         ELSE Saved([m.file EXCEPT !.members = Marshal([k \in {server} |-> fp])],
                    FALSE, TRUE)

\* lines 925-948, m being what fpFileToMap returned: return at once when the
\* map already records fp for c.server, else set the entry and write
saveMap(m, fp) ==
    IF m.err
    THEN Saved(m.file, TRUE, FALSE)
    ELSE IF server \in DOMAIN m.objmap /\ m.objmap[server] = fp
         THEN Saved(m.file, FALSE, FALSE)
         ELSE WriteEntry(m, fp)

\* lines 923-950.  The key is c.server: the parameter srv is not used.
saveFingerprintToFile(file, srv, fp) == saveMap(fpFileToMap(file), fp)

\* the result of a load
Loaded(sv, fp) ==
    [file |-> sv.file, err |-> sv.err, wrote |-> sv.wrote,
     localFp |-> IF sv.err THEN << >> ELSE fp]

loadMap_NoBootstrap(m, cfp) ==
    IF m.err
    THEN Loaded(Saved(m.file, TRUE, FALSE), << >>)
    ELSE IF server \in DOMAIN m.objmap
         THEN Loaded(Saved(m.file, FALSE, FALSE), m.objmap[server])
         ELSE Loaded(Saved(m.file, FALSE, FALSE), cfp)

\* lines 865-874, m being what fpFileToMap returned: the fingerprint recorded
\* for c.server; when there is no record, c.fingerprint is saved as the
\* record and returned
loadMap(m, cfp) ==
    IF m.err
    THEN Loaded(Saved(m.file, TRUE, FALSE), << >>)
    ELSE IF server \in DOMAIN m.objmap
         THEN Loaded(Saved(m.file, FALSE, FALSE), m.objmap[server])
         ELSE Loaded(saveFingerprintToFile(m.file, server, cfp), cfp)

\* lines 857-876
loadFingerprintFromFile(file, cfp) == loadMap(fpFileToMap(file), cfp)

\* getFingerprint(c.server, c.port): a TLS probe of the server that yields
\* the fingerprint of the certificate it presents, or an error
getFingerprint(certificate, reachable) ==
    [err |-> ~reachable, fp |-> IF reachable THEN certificate ELSE << >>]

\* the result of CheckFingerprint and what it did
FpResult(ok, e, cfp, file, w, pr, asked) ==
    [trusted |-> ok, err |-> e, fingerprint |-> cfp, file |-> file,
     wrote |-> w, probes |-> pr, prompted |-> asked]

\* lines 832-833 and 844-848: the fingerprint was saved (an error of the
\* save is ignored) and the server is trusted
TrustedAfterSave(sv, ld, cfp, asked) ==
    FpResult(TRUE, FALSE, cfp, sv.file, ld.wrote \/ sv.wrote, 1, asked)

\* lines 812-854, ld being what loadFingerprintFromFile returned and probe
\* what getFingerprint returned at line 818
checkLoaded(acc, cfp, ld, probe, answer) ==
    IF ld.err THEN FpResult(FALSE, TRUE, cfp, ld.file, ld.wrote, 0, FALSE)
    ELSE IF probe.err THEN FpResult(FALSE, TRUE, cfp, ld.file, ld.wrote, 1, FALSE)
    ELSE IF cfp = probe.fp THEN FpResult(TRUE, FALSE, cfp, ld.file, ld.wrote, 1, FALSE)
    ELSE IF ld.localFp = << >> \/ StripColons(ld.localFp) # StripColons(probe.fp)
    THEN
      IF probe.fp = << >>
      THEN FpResult(FALSE, FALSE, cfp, ld.file, ld.wrote, 1, FALSE)
      ELSE IF acc
      THEN TrustedAfterSave(saveFingerprintToFile(ld.file, server, cfp), ld, cfp, FALSE)
      ELSE IF answer
      THEN TrustedAfterSave(saveFingerprintToFile(ld.file, server, probe.fp), ld,
                            probe.fp, TRUE)
      ELSE FpResult(FALSE, FALSE, cfp, ld.file, ld.wrote, 1, TRUE)
    ELSE FpResult(TRUE, FALSE, probe.fp, ld.file, ld.wrote, 1, FALSE)

\* lines 804-855.  ign, acc: the two certificate flags; cfp: c.fingerprint;
\* probe: what getFingerprint returns at line 818; answer: what the user
\* answers when asked
CheckFingerprint(ign, acc, cfp, file, probe, answer) ==
    IF ign
    THEN FpResult(TRUE, FALSE, cfp, file, FALSE, 0, FALSE)
    ELSE checkLoaded(acc, cfp, loadFingerprintFromFile(file, cfp), probe, answer)

isValidHTTPMethod_AcceptsAll(method) == TRUE

\* lines 987-997
isValidHTTPMethod(method) == method \in {"GET", "POST", "PUT", "DELETE"}

\* the method argument of a call: "none" is a call without one
Methods == {"none", "DELETE", "PATCH"}

\* what the head of apiCall leaves behind
HeadResult(ret, cfp, file, w, pr, asked) ==
    [ret |-> ret, fingerprint |-> cfp, file |-> file, wrote |-> w,
     probes |-> pr, prompted |-> asked]

\* lines 344-350: the outcome of CheckFingerprint decides
headChecked(ck) ==
    HeadResult(IF ~ck.trusted THEN "untrusted" ELSE IF ck.err THEN "error" ELSE "send",
               ck.fingerprint, ck.file, ck.wrote, 1 + ck.probes, ck.prompted)

\* lines 338-350, probe being what getFingerprint returned at line 338
headProbed(ign, acc, cfp, file, probe, answer) ==
    IF probe.err
    THEN HeadResult("probe", cfp, file, FALSE, 1, FALSE)
    ELSE headChecked(CheckFingerprint(ign, acc, probe.fp, file, probe, answer))

\* lines 329-350, the head of apiCall: the method check, the probe of the
\* server, c.fingerprint = fp and CheckFingerprint.  ret is "send" when the
\* call goes on to build and send its request, else the error it returns.
apiCallHead(method, ign, acc, cfp, file, certificate, reachable, answer) ==
    IF method # "none" /\ ~isValidHTTPMethod(method)
    THEN HeadResult("usage", cfp, file, FALSE, 0, FALSE)
    ELSE headProbed(ign, acc, cfp, file, getFingerprint(certificate, reachable), answer)

\* history: what the last operation was and did (again: a CheckFingerprint
\* that follows a CheckFingerprint)
NoOp ==
    [op |-> "none", ret |-> "none", Success |-> FALSE, trusted |-> FALSE,
     wrote |-> FALSE, probes |-> 0, requests |-> 0, prompted |-> FALSE,
     answer |-> FALSE, certificate |-> << >>, method |-> "none",
     reachable |-> TRUE, again |-> FALSE, domainArg |-> "", resSid |-> "",
     resVersion |-> ""]


\* the client of the other specifications: certificate checks ignored, no
\* fingerprint file, no session
TrustIdle ==
    /\ ignoreServerCertificate = TRUE
    /\ acceptServerCertificate = FALSE
    /\ fingerprint = << >>
    /\ fpFile = [exists |-> FALSE, valid |-> TRUE, members |-> << >>]
    /\ presented = << >>
    /\ sid = ""
    /\ domain = ""
    /\ apiVersion = ""
    /\ tpc = "ready"
    /\ lastOp = NoOp

\* the fingerprint files a client can meet: none, one that does not parse,
\* and every object recording a fingerprint or nothing for X and for Y
FpFiles ==
    { [exists |-> FALSE, valid |-> TRUE, members |-> << >>],
      [exists |-> TRUE, valid |-> FALSE, members |-> << >>] }
    \cup { [exists |-> TRUE, valid |-> TRUE, members |-> x \o y] :
             x \in {<< >>} \cup {<< << "X", f >> >> : f \in FPs},
             y \in {<< >>, << << "Y", << "C", "D" >> >> >>} }

\* what the server can present, and what apiCA.Fingerprint can be (line 113)
Certificates == FPs \ { << "A", ":", "B" >> }

\* lines 110-131: a client as constructed, any fingerprint file, any server
TrustInit ==
    /\ ignoreServerCertificate \in BOOLEAN
    /\ acceptServerCertificate \in BOOLEAN
    /\ fingerprint \in Certificates
    /\ fpFile \in FpFiles
    /\ presented \in Certificates
    /\ sid = ""
    /\ domain = ""
    /\ apiVersion = ""
    /\ tpc = "ready"
    /\ lastOp = NoOp

\* the coordinator's variables a single goroutine's call leaves alone
SeqFrame ==
    UNCHANGED << autoPublishBatchSize, totalCallsLock, autoPublishLock, duringPublish,
                 activeCallsCtr, pc, internal, res, publishRes, lastRet,
                 nStarted, nCompleted, nPublish, taskVars, queryVars, follow >>

\* lines 411-494 run by one goroutine alone, for a call whose request is
\* answered with outcome: totalCallsCtr after the call.  The call is counted
\* at line 417; a response that fills the batch runs the publish cycle,
\* which ends with totalCallsCtr = 0 (line 488); activeCallsCtr is
\* incremented and decremented back.
totalAfterCall(int, outcome) ==
    IF ~GateApplies(int, autoPublishBatchSize)
    THEN totalCallsCtr
    ELSE IF outcome # "transport" /\ BatchFull(totalCallsCtr + 1, autoPublishBatchSize)
                                  /\ ~duringPublish
         THEN 0
         ELSE totalCallsCtr + 1

\* lines 413-425: a call that finds the batch full waits at the gate; with
\* one goroutine nothing ends the wait
Blocked(int) ==
    /\ GateApplies(int, autoPublishBatchSize)
    /\ ~Admissible(totalCallsCtr, autoPublishBatchSize, duringPublish)

\* apiCall (lines 329-497) for an external command other than login, with no
\* task to wait for
TCall ==
    /\ tpc = "ready"
    /\ \E method \in Methods, reachable \in BOOLEAN, answer \in BOOLEAN :
      \E h \in {apiCallHead(method, ignoreServerCertificate, acceptServerCertificate,
                              fingerprint, fpFile, presented, reachable, answer)} :
        LET r == [NoOp EXCEPT !.op = "call", !.wrote = h.wrote, !.probes = h.probes,
                              !.prompted = h.prompted, !.certificate = presented,
                              !.answer = h.prompted /\ answer, !.method = method]
        IN /\ fingerprint' = h.fingerprint
           /\ fpFile' = h.file
           /\ IF h.ret # "send"
              THEN /\ lastOp' = [r EXCEPT !.ret = h.ret]
                   /\ UNCHANGED << totalCallsCtr, tpc >>
              ELSE IF Blocked(FALSE)
              THEN /\ lastOp' = [r EXCEPT !.ret = "blocked"]
                   /\ tpc' = "blocked"
                   /\ UNCHANGED totalCallsCtr
              ELSE \E outcome \in {"succ", "fail", "transport"} :
                   /\ lastOp' = [r EXCEPT !.ret = IF outcome = "transport"
                                                THEN "transport" ELSE "response",
                                        !.Success = (outcome = "succ"),
                                        !.requests = 1]
                   /\ totalCallsCtr' = totalAfterCall(FALSE, outcome)
                   /\ UNCHANGED tpc
    /\ UNCHANGED << ignoreServerCertificate, acceptServerCertificate, presented,
                    sid, domain, apiVersion >>
    /\ SeqFrame

\* CheckFingerprint (lines 804-855) called by the user of the client
TVerify ==
    /\ tpc = "ready"
    /\ \E reachable \in BOOLEAN, answer \in BOOLEAN :
      \E ck \in {CheckFingerprint(ignoreServerCertificate, acceptServerCertificate,
                                   fingerprint, fpFile,
                                   getFingerprint(presented, reachable), answer)} :
           /\ fingerprint' = ck.fingerprint
           /\ fpFile' = ck.file
           /\ lastOp' = [NoOp EXCEPT !.op = "verify",
                                   !.ret = IF ck.err THEN "error" ELSE "decision",
                                   !.trusted = ck.trusted, !.wrote = ck.wrote,
                                   !.probes = ck.probes, !.prompted = ck.prompted,
                                   !.answer = answer, !.certificate = presented,
                                   !.reachable = reachable,
                                   !.again = (lastOp.op = "verify")]
    /\ UNCHANGED << ignoreServerCertificate, acceptServerCertificate, presented,
                    sid, domain, apiVersion, tpc, totalCallsCtr >>
    /\ SeqFrame

\* the server's certificate is replaced
TCertChange ==
    /\ tpc = "ready"
    /\ \E c \in Certificates \ {presented} : presented' = c
    /\ UNCHANGED << ignoreServerCertificate, acceptServerCertificate, fingerprint, fpFile,
                    sid, domain, apiVersion, tpc, lastOp, totalCallsCtr >>
    /\ SeqFrame


\* what the server can answer a login request with: a failure, or a success
\* carrying (or lacking) "sid" and "api-server-version"
LoginResponses ==
    { [Success |-> FALSE, hasSid |-> FALSE, sid |-> "", hasVersion |-> FALSE,
       version |-> ""],
      [Success |-> TRUE, hasSid |-> FALSE, sid |-> "", hasVersion |-> TRUE,
       version |-> "1.9"] }
    \cup { [Success |-> TRUE, hasSid |-> TRUE, sid |-> x, hasVersion |-> v,
            version |-> IF v THEN "1.9" ELSE ""] : x \in {"s1", "s2"}, v \in BOOLEAN }

\* the session fields and whether a type assertion panicked
Session(s, d, v, p) == [sid |-> s, domain |-> d, apiVersion |-> v, panic |-> p]

sessionAfterLogin_AdoptsVersionAlways(loginRes, dom, s, d, v) ==
    IF ~loginRes.Success THEN Session(s, d, v, FALSE)
    ELSE IF ~loginRes.hasSid THEN Session(s, d, v, TRUE)
    ELSE IF ~loginRes.hasVersion THEN Session(loginRes.sid, dom, v, TRUE)
    ELSE Session(loginRes.sid, dom, loginRes.version, FALSE)

\* lines 292-300: what commonLoginLogic does with the response of the login
\* call; s, d, v are c.sid, c.domain and c.apiVersion, dom the domain asked
\* for.  The type assertions of lines 293 and 296 panic on a missing field.
sessionAfterLogin(loginRes, dom, s, d, v) ==
    IF ~loginRes.Success THEN Session(s, d, v, FALSE)
    ELSE IF ~loginRes.hasSid THEN Session(s, d, v, TRUE)
    ELSE IF v # "" THEN Session(loginRes.sid, dom, v, FALSE)
    ELSE IF ~loginRes.hasVersion THEN Session(loginRes.sid, dom, v, TRUE)
    ELSE Session(loginRes.sid, dom, loginRes.version, FALSE)

\* commonLoginLogic (lines 271-301): the login request is an internal call
\* (line 288), so it passes the head of apiCall and skips the gate
TLogin ==
    /\ tpc = "ready"
    /\ \E dom \in {"", "d1"}, reachable \in BOOLEAN, answer \in BOOLEAN :
      \E h \in {apiCallHead("none", ignoreServerCertificate, acceptServerCertificate,
                            fingerprint, fpFile, presented, reachable, answer)} :
        LET r == [NoOp EXCEPT !.op = "login", !.wrote = h.wrote, !.probes = h.probes,
                              !.prompted = h.prompted, !.certificate = presented,
                              !.answer = h.prompted /\ answer, !.domainArg = dom]
        IN /\ fingerprint' = h.fingerprint
           /\ fpFile' = h.file
           /\ IF h.ret # "send"
              THEN /\ lastOp' = [r EXCEPT !.ret = h.ret]
                   /\ UNCHANGED << sid, domain, apiVersion, tpc >>
              ELSE \/ /\ lastOp' = [r EXCEPT !.ret = "transport", !.requests = 1]
                      /\ UNCHANGED << sid, domain, apiVersion, tpc >>
                   \/ \E loginRes \in LoginResponses :
                       \E n \in {sessionAfterLogin(loginRes, dom, sid, domain, apiVersion)} :
                        /\ lastOp' = [r EXCEPT !.ret = IF n.panic THEN "panic" ELSE "response",
                                               !.Success = loginRes.Success,
                                               !.requests = 1,
                                               !.resSid = loginRes.sid,
                                               !.resVersion = loginRes.version]
                        /\ sid' = n.sid
                        /\ domain' = n.domain
                        /\ apiVersion' = n.apiVersion
                        /\ tpc' = IF n.panic THEN "panicked" ELSE tpc
    /\ UNCHANGED << ignoreServerCertificate, acceptServerCertificate, presented,
                    totalCallsCtr >>
    /\ SeqFrame

\* lines 110-131: clients with or without a session id and an API version
\* configured, certificate checks on or off
SessionInit ==
    /\ ignoreServerCertificate \in BOOLEAN
    /\ acceptServerCertificate = FALSE
    /\ fingerprint = << >>
    /\ fpFile \in { [exists |-> FALSE, valid |-> TRUE, members |-> << >>],
                    [exists |-> TRUE, valid |-> TRUE,
                     members |-> << << "X", << "A", "B" >> >> >>] }
    /\ presented \in { << "A", "B" >>, << "C", "D" >> }
    /\ sid \in {"", "s0"}
    /\ domain = ""
    /\ apiVersion \in {"", "1.8"}
    /\ tpc = "ready"
    /\ lastOp = NoOp


(***************************************************************************)
(* The task follow-up of apiCall (lines 429-465) with waitForTask (lines   *)
(* 682-736) and waitForTasks (lines 745-767): one call, its request sent,  *)
(* against a server that may answer every request in any way.              *)
(***************************************************************************)
\* the most task objects in the "tasks" field of a response
MaxTaskIds == 2

\* the commands of the model: show-task and another
Commands == {"show-task", "add-host"}

\* what the server can answer the call's request with: success or not;
\* no "task-id" and no "tasks" field, a "task-id", a "tasks" list of 0 to
\* MaxTaskIds task objects, or a "task-id" and a "tasks" list of one
FirstResponses ==
    { [Success |-> ok, hasTaskId |-> t, hasTasks |-> FALSE, nTasks |-> 0] :
        ok \in BOOLEAN, t \in BOOLEAN }
    \cup { [Success |-> ok, hasTaskId |-> FALSE, hasTasks |-> TRUE, nTasks |-> n] :
        ok \in BOOLEAN, n \in 0 .. MaxTaskIds }
    \cup { [Success |-> ok, hasTaskId |-> TRUE, hasTasks |-> TRUE, nTasks |-> 1] :
        ok \in BOOLEAN }

followUp_IgnoresCommand(wait, command, first) ==
    IF wait /\ first.Success
    THEN IF first.hasTaskId THEN "single"
         ELSE IF first.hasTasks /\ first.nTasks > 0 THEN "multi"
         ELSE "none"
    ELSE "none"

\* lines 450-465: which poller the call enters after its first response:
\* waitForTask ("single"), waitForTasks ("multi") or none
followUp(wait, command, first) ==
    IF wait = TRUE /\ first.Success /\ command # "show-task"
    THEN IF first.hasTaskId THEN "single"
         ELSE IF first.hasTasks /\ first.nTasks > 0 THEN "multi"
         ELSE "none"
    ELSE "none"

\* what apiCall returns: an error, or a response and where it came from
\* ("first": the response of the call's own request; "task": what
\* waitForTask returned; "combined": what waitForTasks returned)
Returned(e, from, resp) == [err |-> e, from |-> from, resp |-> resp]

\* no call
FollowIdle ==
    follow = [pc |-> "idle", command |-> "add-host", waitForTask |-> FALSE,
              first |-> [Success |-> FALSE, hasTaskId |-> FALSE, hasTasks |-> FALSE,
                         nTasks |-> 0],
              answered |-> FALSE, entered |-> "none", idx |-> 0,
              ended |-> << >>, shows |-> 0,
              combined |-> EmptyResponse, combinedErr |-> FALSE,
              ret |-> Returned(FALSE, "none", EmptyResponse)]

\* lines 329-429: a call of any command, with waitForTask set or not, has
\* sent its request
FollowInit ==
    \E command \in Commands, wait \in BOOLEAN :
        follow = [pc |-> "sent", command |-> command, waitForTask |-> wait,
                  first |-> [Success |-> FALSE, hasTaskId |-> FALSE, hasTasks |-> FALSE,
                             nTasks |-> 0],
                  answered |-> FALSE, entered |-> "none", idx |-> 0,
                  ended |-> << >>, shows |-> 0,
                  combined |-> EmptyResponse, combinedErr |-> FALSE,
                  ret |-> Returned(FALSE, "none", EmptyResponse)]

FollowFrame == UNCHANGED << coordVars, queryVars, trustVars >>

\* lines 684-688: waitForTask is entered with fresh locals
EnterWaitForTask ==
    /\ pcT' = "poll"
    /\ taskResult' = EmptyResponse
    /\ attemptsCounter' = 0
    /\ taskErr' = FALSE
    /\ waitResult' = EmptyResponse
    /\ lastGoodTasks' = << >>
    /\ nPolls' = 0
    /\ errorPrints' = 0

\* waitForTask has returned: its locals are gone
LeaveWaitForTask ==
    /\ pcT' = "idle"
    /\ taskResult' = EmptyResponse
    /\ attemptsCounter' = 0
    /\ taskErr' = FALSE
    /\ waitResult' = EmptyResponse
    /\ lastGoodTasks' = << >>
    /\ nPolls' = 0
    /\ errorPrints' = 0

\* lines 429-436: the request ends in a transport error
FTransportError ==
    /\ follow.pc = "sent"
    /\ follow' = [follow EXCEPT !.pc = "returned",
                                !.ret = Returned(TRUE, "none", EmptyResponse)]
    /\ UNCHANGED taskVars
    /\ FollowFrame

\* lines 438-465 and 496: the request is answered; the call returns the
\* response, or enters waitForTask (line 452) or waitForTasks (line 462,
\* whose loop calls waitForTask for the first task object, line 751)
FFirstResponse ==
    /\ follow.pc = "sent"
    /\ \E first \in FirstResponses :
        \E e \in {followUp(follow.waitForTask, follow.command, first)} :
          /\ follow' = [follow EXCEPT
                          !.first = first,
                          !.answered = TRUE,
                          !.entered = e,
                          !.pc = IF e = "none" THEN "returned" ELSE e,
                          !.idx = IF e = "multi" THEN 1 ELSE 0,
                          !.ret = IF e = "none"
                                  THEN Returned(FALSE, "first", EmptyResponse)
                                  ELSE follow.ret]
          /\ IF e = "none" THEN UNCHANGED taskVars ELSE EnterWaitForTask
    /\ FollowFrame

\* lines 452-458 and 496: waitForTask returned; its error or its response
\* is what the call returns
FTaskReturned ==
    /\ follow.pc = "single"
    /\ pcT = "done"
    /\ follow' = [follow EXCEPT
                    !.pc = "returned",
                    !.ret = IF taskErr THEN Returned(TRUE, "none", EmptyResponse)
                            ELSE Returned(FALSE, "task", waitResult)]
    /\ LeaveWaitForTask
    /\ FollowFrame

\* lines 748-752: the waitForTask of one task object returned; what it
\* returned is dropped (line 751) and the loop goes on to the next task
\* object, or ends
FNextTask ==
    /\ follow.pc = "multi"
    /\ pcT = "done"
    /\ follow' = [follow EXCEPT
                    !.ended = Append(follow.ended,
                                     IF taskErr THEN "error" ELSE "complete"),
                    !.idx = follow.idx + 1,
                    !.pc = IF follow.idx < follow.first.nTasks
                           THEN "multi" ELSE "combined"]
    /\ IF follow.idx < follow.first.nTasks
       THEN EnterWaitForTask
       ELSE LeaveWaitForTask
    /\ FollowFrame

\* lines 754-765, 462 and 496: the show-task request for all the ids is
\* answered, or ends in an error that is only printed (taskRes is then
\* APIResponse{}); checkTasksStatus; the call returns the result
FCombined ==
    /\ follow.pc = "combined"
    /\ \/ \E r \in PollResponses :
            follow' = [follow EXCEPT
                         !.pc = "returned",
                         !.shows = follow.shows + 1,
                         !.combined = r,
                         !.ret = Returned(FALSE, "combined", checkTasksStatus(r))]
       \/ follow' = [follow EXCEPT
                       !.pc = "returned",
                       !.shows = follow.shows + 1,
                       !.combinedErr = TRUE,
                       !.ret = Returned(FALSE, "combined",
                                        checkTasksStatus(EmptyResponse))]
    /\ UNCHANGED taskVars
    /\ FollowFrame

(***************************************************************************)
(* Specifications.                                                         *)
(***************************************************************************)
Init == CoordInit /\ TaskIdle /\ QueryIdle /\ TrustIdle /\ FollowIdle

Next == CoordNext

\* the auto-publish coordinator
Spec == Init /\ [][Next]_vars

InitTask == CoordInit /\ TaskInit /\ QueryIdle /\ TrustIdle /\ FollowIdle

NextTask == TaskNext

\* the task poller
SpecTask == InitTask /\ [][NextTask]_vars

InitQuery == CoordInit /\ TaskIdle /\ QueryInit /\ TrustIdle /\ FollowIdle

NextQuery == QueryNext

\* the pagination engine
SpecQuery == InitQuery /\ [][NextQuery]_vars

InitTrust == CoordInit /\ TaskIdle /\ QueryIdle /\ TrustInit /\ FollowIdle

NextTrust ==
    \/ TCall
    \/ TVerify
    \/ TCertChange

\* server trust: calls and fingerprint checks of one goroutine
SpecTrust == InitTrust /\ [][NextTrust]_vars

\* line 126: a client constructed with auto-publish on, or off (batch size
\* 0 or negative)
InitDisable ==
    /\ autoPublishBatchSize \in {0 - 1, 0, BatchSize}
    /\ CountersInit
    /\ TaskIdle /\ QueryIdle /\ TrustIdle /\ FollowIdle

NextDisable ==
    \/ CoordNext
    \/ DisableAutoPublish

\* the coordinator with DisableAutoPublish
SpecDisable == InitDisable /\ [][NextDisable]_vars

InitSession == CoordInit /\ TaskIdle /\ QueryIdle /\ SessionInit /\ FollowIdle

NextSession ==
    \/ TLogin
    \/ TCall
    \/ TVerify
    \/ TCertChange

\* the session: logins, calls and fingerprint checks of one goroutine
SpecSession == InitSession /\ [][NextSession]_vars

InitFollow == CoordInit /\ TaskIdle /\ QueryIdle /\ TrustIdle /\ FollowInit

NextFollow ==
    \/ FTransportError
    \/ FFirstResponse
    \/ FTaskReturned
    \/ FNextTask
    \/ FCombined
    \/ TaskNext

\* a call and its task follow-up
SpecFollow == InitFollow /\ [][NextFollow]_vars

\* one goroutine making its calls one after the other (external calls, and
\* internal ones such as login), every external request answered with a
\* response, successful or not: lines 431-444 and 453-458 are not taken by
\* an external call
NextSeq ==
    \E p \in {1} :
        \/ StartCall(p)
        \/ AdmitCheck(p)
        \/ AdmitInc(p)
        \/ IncreaseAndSend(p)
        \/ Complete(p) /\ (~internal[p] => res'[p] \in {"succ", "fail"})
        \/ PreCheckTotal(p)
        \/ PreCheckFlag(p)
        \/ RecheckTotal(p)
        \/ RecheckFlag(p)
        \/ DrainAndPublish(p)
        \/ PublishDone(p)
        \/ ResetTotal(p)
        \/ ClearFlag(p)

\* the coordinator with a single sequential caller
SpecSeq == Init /\ [][NextSeq]_vars

\* fair scheduling of the goroutines and a server that answers every request:
\* a goroutine inside apiCall takes its next step (lines 411-496); the loops
\* of lines 413-425 and 470 try again every second, so a waiting caller gets
\* its turn whenever the condition holds again and again; a request sent at
\* line 429 or 481 returns.  No caller is obliged to start a call.
CoordFairness ==
    \A p \in Callers :
        /\ SF_vars(AdmitCheck(p))
        /\ WF_vars(AdmitInc(p))
        /\ WF_vars(IncreaseAndSend(p))
        /\ WF_vars(Complete(p))
        /\ WF_vars(PreCheckTotal(p))
        /\ WF_vars(PreCheckFlag(p))
        /\ SF_vars(RecheckTotal(p))
        /\ WF_vars(RecheckFlag(p))
        /\ WF_vars(DrainAndPublish(p))
        /\ WF_vars(PublishDone(p))
        /\ WF_vars(ResetTotal(p))
        /\ WF_vars(ClearFlag(p))

\* the coordinator under fair scheduling
SpecLive == Init /\ [][Next]_vars /\ CoordFairness

(***************************************************************************)
(* Properties of the coordinator (checked under Spec).                     *)
(***************************************************************************)
\* a caller between setting and clearing duringPublish (lines 472-489)
InCycle(p) == pc[p] \in {"drain", "publishing", "p488", "p489"}

\* an external call counted in totalCallsCtr whose request is not answered yet
AdmittedOpen(p) == ~internal[p] /\ pc[p] \in {"g426", "inflight"}

AllIdle == \A p \in Callers : pc[p] = "idle"

\* C1: with batch size N the coordinator issues exactly one publish per N
\* completed external calls: no publish that is not backed by N completed
\* calls, no full batch left without its publish once every call has
\* returned, and totalCallsCtr is 0 when a publish cycle completes (the state
\* in which the cycle clears the flag).
C1_PublishOncePerBatch ==
    /\ nPublish * autoPublishBatchSize <= nCompleted
    /\ AllIdle => nPublish = nCompleted \div autoPublishBatchSize
    /\ \A p \in Callers : pc[p] = "p489" => totalCallsCtr = 0

\* C2: from the end of the drain wait until the flag is cleared (the publish
\* request in flight, the reset, the clearing) no external call that was
\* admitted is unanswered, and none sends its request.
C2_NoCallInFlightAtPublish ==
    \A q \in Callers :
        pc[q] \in {"publishing", "p488", "p489"} =>
            \A p \in Callers : ~AdmittedOpen(p)

\* C3: at most one caller is inside a publish cycle, and whoever is inside
\* one holds the flag set.
C3_OnePublishCycle ==
    /\ Cardinality({p \in Callers : InCycle(p)}) <= 1
    /\ \A p \in Callers : InCycle(p) => duringPublish

\* C3 witness: one caller is in its publish cycle while another, completing
\* at the same time, stands at the locked re-check of the flag.
C3_Witness ==
    \E p, q \in Callers : p # q /\ InCycle(p) /\ pc[q] = "p471b"

\* C4: the active in-flight call counter is never negative.
C4_ActiveNeverNegative == activeCallsCtr >= 0

\* C4 witness: the counter is back at 0 after external calls were answered
\* while an internal call is still in flight.
C4_Witness ==
    /\ activeCallsCtr = 0
    /\ nCompleted >= 2
    /\ \E p \in Callers : internal[p] /\ pc[p] = "inflight"

\* C5: a call that passed the admission check is counted in a state where
\* totalCallsCtr + 1 <= N and duringPublish is clear, and totalCallsCtr never
\* exceeds N.
C5_AdmissionGate ==
    /\ totalCallsCtr <= autoPublishBatchSize
    /\ \A p \in Callers :
        pc[p] = "g417" =>
            /\ totalCallsCtr + 1 <= autoPublishBatchSize
            /\ ~duringPublish

\* the part of C5 about the counter alone
C5_TotalBounded == totalCallsCtr <= autoPublishBatchSize

(***************************************************************************)
(* Properties of the task poller (checked under SpecTask).                 *)
(***************************************************************************)
HasInProgress(ts) == \E i \in 1 .. Len(ts) : ts[i] = InProgress

AllLeftInProgress(ts) == \A i \in 1 .. Len(ts) : ts[i] \notin {InProgress, "none"}

AnyFailed(ts) == \E i \in 1 .. Len(ts) : ts[i] \in {"failed", "partially succeeded"}

C7_FailedSubTaskDowngrades ==
    pcT = "done" /\ ~taskErr =>
        IF AnyFailed(taskResult.tasks)
        THEN /\ taskResult.Success
             /\ ~waitResult.Success
             /\ waitResult.ErrorMsg = "generic"
        ELSE waitResult.Success = taskResult.Success

\* C7 witness: the final poll succeeded, one sub-task partially succeeded and
\* none failed; the returned response is marked failed.
C7_Witness ==
    /\ pcT = "done"
    /\ ~taskErr
    /\ taskResult.Success
    /\ \E i \in 1 .. Len(taskResult.tasks) : taskResult.tasks[i] = "partially succeeded"
    /\ \A i \in 1 .. Len(taskResult.tasks) : taskResult.tasks[i] # "failed"
    /\ ~waitResult.Success

\* C8: when the poll has been retried 5 times and is still unsuccessful,
\* awaitTask gives up: its next step returns that last unsuccessful result.
C8_GivesUpAfterFiveRetries ==
    [][pcT = "retry" /\ ~taskResult.Success /\ attemptsCounter >= 5
         => pcT' = "done" /\ waitResult' = taskResult]_vars

(***************************************************************************)
(* Properties of the pagination engine (checked under SpecQuery).          *)
(***************************************************************************)
\* max(1, ceil(T / 50))
RoundsFor(T) == IF T = 0 THEN 1 ELSE (T + 49) \div 50

\* C9: against the server that answers every round with its page, queryAll
\* sends limit 50 and the offsets 0, 50, 100, ... in that order, never more
\* than max(1, ceil(T/50)) requests, and returns after exactly that many
\* rounds with the T objects accumulated; 3 rounds for T = 120.
C9_FaithfulServerRounds ==
    qFaithful =>
        /\ Len(qRequests) <= RoundsFor(srvObjects)
        /\ \A k \in 1 .. Len(qRequests) :
              qRequests[k] = [limit |-> 50, offset |-> 50 * (k - 1)]
        /\ pcQ \notin {"exited", "panicked"}
        /\ pcQ = "done" =>
              /\ Len(qRequests) = RoundsFor(srvObjects)
              /\ Len(serverResponse) = RoundsFor(srvObjects)
              /\ serverResponse[Len(serverResponse)].objects = [i \in 1 .. srvObjects |-> i]
              /\ queryErr = "nil"
              /\ srvObjects = 120 => Len(qRequests) = 3

\* C9 witness: the spec's case, 120 objects fetched in 3 rounds.
C9_Witness ==
    /\ pcQ = "done"
    /\ qFaithful
    /\ srvObjects = 120
    /\ Len(serverResponse) = 3
    /\ Len(allObjects) = 120

\* C10: once a round of queryAll ended in a transport error, queryAll
\* returns that error: never a response sequence with a nil error.
C10_TransportErrorSurfaced ==
    pcQ = "done" /\ qTransportErr => errOutput = "err" /\ queryErr = "err"

\* C11: a protocol failure (an unsuccessful response) answering a round of
\* queryAll is delivered to the caller as a returned response with
\* success = false: the process is never terminated, and when the last
\* round was answered with a failure the query returns that response with no
\* error.
C11_ProtocolFailureReturned ==
    /\ pcQ # "exited"
    /\ pcQ = "done" /\ ~qTransportErr /\ ~apiRes.Success =>
          /\ queryErr = "nil"
          /\ Len(serverResponse) > 0
          /\ ~serverResponse[Len(serverResponse)].Success

(***************************************************************************)
(* Properties of server trust (checked under SpecTrust).                   *)
(***************************************************************************)
\* the fingerprint file as a map (an absent file holds no record)
Recorded(file) == IF file.exists /\ file.valid THEN Unmarshal(file.members) ELSE EmptyMap

\* C12: a call with a method outside GET, POST, PUT, DELETE returns the
\* usage error, probes no certificate, sends no request, writes no file and
\* leaves c.fingerprint, the fingerprint file and the call counters as they
\* were.
C12_InvalidMethodRejected ==
    /\ [](lastOp.op = "call" /\ lastOp.method = "PATCH" =>
             /\ lastOp.ret = "usage"
             /\ lastOp.probes = 0
             /\ lastOp.requests = 0
             /\ ~lastOp.wrote
             /\ ~lastOp.prompted)
    /\ [][lastOp'.op = "call" /\ lastOp'.method = "PATCH" =>
             UNCHANGED << fingerprint, fpFile, totalCallsCtr, activeCallsCtr,
                          duringPublish >>]_vars

\* C12 witness: the usage error returned by a client that checks
\* certificates, has no fingerprint file yet and holds a fingerprint other
\* than the server's; a valid call would have probed and written.
C12_Witness ==
    /\ lastOp.op = "call"
    /\ lastOp.method = "PATCH"
    /\ lastOp.ret = "usage"
    /\ ~ignoreServerCertificate
    /\ ~fpFile.exists
    /\ fingerprint # presented

\* C13: a call of a client that neither ignores certificates nor accepts
\* them automatically, to a server whose presented fingerprint differs from
\* the one the fingerprint file records for it, sends a request only after
\* the user was asked and accepted; after a refusal it returns the
\* untrusted-certificate error.
C13_ChangedCertificateNeedsConsent ==
    [][/\ lastOp'.op = "call"
       /\ presented' = presented
       /\ ~ignoreServerCertificate
       /\ ~acceptServerCertificate
       /\ server \in DOMAIN Recorded(fpFile)
       /\ StripColons(Recorded(fpFile)[server]) # StripColons(presented)
       /\ lastOp'.requests = 1
       => lastOp'.prompted /\ lastOp'.answer]_vars

\* C14: a CheckFingerprint that follows a CheckFingerprint, the server
\* presenting the same certificate (or being unreachable both times) and
\* the user giving the same answer, returns the same decision and does not
\* write the fingerprint file.
C14_VerifyIdempotent ==
    [][/\ lastOp.op = "verify"
       /\ lastOp'.op = "verify"
       /\ lastOp'.again
       /\ presented' = presented
       /\ lastOp'.certificate = lastOp.certificate
       /\ lastOp'.reachable = lastOp.reachable
       /\ lastOp'.answer = lastOp.answer
       => /\ lastOp'.trusted = lastOp.trusted
          /\ lastOp'.ret = lastOp.ret
          /\ ~lastOp'.wrote
          /\ fpFile' = fpFile]_vars

\* C14 witness: the second of two checks, after the user accepted a
\* changed certificate in the first and the file was rewritten.
C14_Witness ==
    /\ lastOp.op = "verify"
    /\ lastOp.again
    /\ lastOp.trusted
    /\ ~lastOp.wrote
    /\ ~ignoreServerCertificate
    /\ ~acceptServerCertificate
    /\ server \in DOMAIN Recorded(fpFile)
    /\ Recorded(fpFile)[server] = presented
    /\ presented # << >>

\* C15: after saveFingerprintToFile has written f for this server, loading
\* the file yields f for it, every other server's record is as before, and
\* a server without a record still has none.
C15_SaveLoadRoundTrip ==
    /\ \A f \in FPs :
          LET sv == saveFingerprintToFile(fpFile, server, f)
              before == Recorded(createEmptyJsonFile(fpFile))
              after == fpFileToMap(sv.file).objmap
          IN ~sv.err =>
               /\ loadFingerprintFromFile(sv.file, << >>).localFp = f
               /\ ~loadFingerprintFromFile(sv.file, << >>).wrote
               /\ DOMAIN after = DOMAIN before \cup {server}
               /\ \A k \in DOMAIN before \ {server} : after[k] = before[k]
    /\ lastOp.wrote => server \in DOMAIN Recorded(fpFile)

\* C15 witness: an operation wrote this server's fingerprint into a file
\* that records another server too.
C15_Witness ==
    /\ lastOp.wrote
    /\ DOMAIN Recorded(fpFile) = {"X", "Y"}
    /\ Recorded(fpFile)["X"] = << "A", "B" >>
    /\ Recorded(fpFile)["Y"] = << "C", "D" >>

(***************************************************************************)
(* Properties of the session (checked under SpecSession).                  *)
(***************************************************************************)
\* C16: a login that returns a successful response stores the returned
\* session id and the requested domain, and adopts the server's API version
\* only when none was configured; a login that returns a failure or an
\* error leaves session id, domain and API version as they were; the
\* session id changes in no step but a login answered with success.
C16_LoginSession ==
    /\ [][lastOp'.op = "login" /\ presented' = presented /\ lastOp'.ret # "panic" =>
            IF lastOp'.ret = "response" /\ lastOp'.Success
            THEN /\ sid' = lastOp'.resSid
                 /\ domain' = lastOp'.domainArg
                 /\ apiVersion' = IF apiVersion = "" THEN lastOp'.resVersion
                                                     ELSE apiVersion
            ELSE UNCHANGED << sid, domain, apiVersion >>]_vars
    /\ [][sid' # sid =>
            lastOp'.op = "login" /\ lastOp'.requests = 1 /\ lastOp'.Success]_vars

\* C16 witness: a client configured with API version 1.8 and session s0
\* logged in to domain d1: the session is the returned one, the version is
\* still 1.8.
C16_Witness ==
    /\ lastOp.op = "login"
    /\ lastOp.ret = "response"
    /\ lastOp.Success
    /\ lastOp.resSid = "s2"
    /\ lastOp.resVersion = "1.9"
    /\ sid = "s2"
    /\ domain = "d1"
    /\ apiVersion = "1.8"

(***************************************************************************)
(* More properties of the coordinator (checked under Spec).                *)
(***************************************************************************)
\* C17: an internal call never stands at the admission gate or in the
\* publish trigger, and its steps leave totalCallsCtr, activeCallsCtr and
\* duringPublish alone, whatever their values; the publish call of a
\* publish cycle, being internal, can always return.
C17_InternalCallsBypassGate ==
    /\ [](\A p \in Callers :
             /\ internal[p] => pc[p] \in {"idle", "inflight"}
             /\ pc[p] = "publishing" => ENABLED PublishDone(p))
    /\ [][\A p \in Callers :
             internal'[p] /\ pc'[p] # pc[p] =>
                UNCHANGED << totalCallsCtr, activeCallsCtr, duringPublish >>]_vars

\* C17 witness: an internal call in flight while a publish cycle has the
\* flag set and totalCallsCtr equals the batch size.
C17_Witness ==
    /\ duringPublish
    /\ totalCallsCtr = autoPublishBatchSize
    /\ \E p, q \in Callers : internal[p] /\ pc[p] = "inflight" /\ pc[q] = "publishing"

\* C18: whatever the publish call returned (also a failure or an error),
\* the cycle goes on to reset totalCallsCtr to 0 and to clear duringPublish
\* without issuing another publish, and the caller returns the response of
\* its own call.
C18_PublishFailureSwallowed ==
    [][\A p \in Callers :
          /\ pc[p] = "publishing" /\ pc'[p] # pc[p] =>
                pc'[p] = "p488" /\ nPublish' = nPublish /\ res'[p] = res[p]
          /\ pc[p] = "p488" /\ pc'[p] # pc[p] =>
                pc'[p] = "p489" /\ totalCallsCtr' = 0 /\ nPublish' = nPublish
          /\ pc[p] = "p489" /\ pc'[p] # pc[p] =>
                /\ pc'[p] = "idle"
                /\ ~duringPublish'
                /\ nPublish' = nPublish
                /\ lastRet' = res[p]
                /\ lastRet' \in {"succ", "fail"}]_vars

\* C18 witness: the publish call failed and the caller is about to return
\* its own successful response, totalCallsCtr being reset.
C18_Witness ==
    \E p \in Callers :
        /\ pc[p] = "p489"
        /\ publishRes[p] \in {"fail", "err"}
        /\ res[p] = "succ"
        /\ totalCallsCtr = 0

\* C20: when the request of an admitted external call is answered, with a
\* response or with an error, activeCallsCtr is decremented and the call
\* goes on to evaluate the publish trigger (line 469).
C20_TriggerAfterEveryCompletion ==
    [][\A p \in Callers :
          /\ pc[p] = "inflight"
          /\ pc'[p] # "inflight"
          /\ ~internal[p]
          /\ autoPublishBatchSize > 0
          => /\ activeCallsCtr' = activeCallsCtr - 1
             /\ pc'[p] = "p469a"]_vars

(***************************************************************************)
(* Properties of a client without auto-publish (checked under SpecDisable).*)
(***************************************************************************)
\* C19: with a batch size <= 0, also after DisableAutoPublish, no external
\* call is held at the admission gate and no caller is about to issue a
\* publish.
C19_DisabledGateHoldsNoCall ==
    autoPublishBatchSize <= 0 => \A p \in Callers : pc[p] \notin {"gate", "drain"}

(***************************************************************************)
(* Liveness of the admission gate (checked under SpecLive).                *)
(***************************************************************************)
\* C21: with batch size N > 0, fair scheduling and every request answered,
\* every external call waiting at the admission gate is eventually admitted.
C21_WaitingCallEventuallyAdmitted ==
    \A p \in Callers : (pc[p] = "gate") ~> (pc[p] # "gate")

\* the state C21 says is never reached: the batch is full, no publish cycle
\* is running or about to start, no call is in flight, and a caller waits
C21_GateNeverDead ==
    ~ /\ totalCallsCtr = autoPublishBatchSize
      /\ ~duringPublish
      /\ \A p \in Callers : pc[p] \in {"idle", "gate"}
      /\ \E p \in Callers : pc[p] = "gate"

(***************************************************************************)
(* The publish cadence of a sequential caller (checked under SpecSeq).     *)
(***************************************************************************)
\* C22: with one sequential caller, batch size N > 0 and every external call
\* answered with a response, the publish request is issued during exactly the
\* N-th, 2N-th, ... external call, after that call's request was answered and
\* before the call returns, and during no other call: before an external
\* call is answered the publishes issued are those of the full batches so
\* far; a publish request is in flight only inside a call whose number is a
\* multiple of N, and it is the publish of that batch; a call that has been
\* answered and has not issued a publish has one less than that.
C22_PublishDuringEveryNthCall ==
    /\ pc[1] \in {"idle", "gate", "g417", "g426", "inflight"} =>
           nPublish = nCompleted \div autoPublishBatchSize
    /\ pc[1] \in {"p469a", "p469b", "p470", "p471b", "drain"} =>
           nPublish = (nCompleted - 1) \div autoPublishBatchSize
    /\ pc[1] \in {"publishing", "p488", "p489"} =>
           /\ nCompleted % autoPublishBatchSize = 0
           /\ nPublish = nCompleted \div autoPublishBatchSize
           /\ res[1] \in {"succ", "fail"}

\* C22 witness: the caller has returned from its 2N-th external call and two
\* publish requests were issued.
C22_Witness ==
    /\ pc[1] = "idle"
    /\ nCompleted = 2 * autoPublishBatchSize
    /\ nPublish = 2

(***************************************************************************)
(* Further properties of server trust (checked under SpecTrust).           *)
(***************************************************************************)
\* C23: a CheckFingerprint of a client with auto-accept that finds the
\* server presenting a fingerprint other than the one the fingerprint file
\* records for it returns trusted without asking, and the file afterwards
\* records the presented fingerprint for the server.
C23_AutoAcceptStoresPresented ==
    [][/\ lastOp'.op = "verify"
       /\ presented' = presented
       /\ lastOp'.reachable
       /\ presented # << >>
       /\ ~ignoreServerCertificate
       /\ acceptServerCertificate
       /\ server \in DOMAIN Recorded(fpFile)
       /\ StripColons(Recorded(fpFile)[server]) # StripColons(presented)
       => /\ lastOp'.trusted
          /\ ~lastOp'.prompted
          /\ server \in DOMAIN Recorded(fpFile')
          /\ Recorded(fpFile')[server] = presented]_vars

\* C24: after every CheckFingerprint that returns trusted (the fingerprints
\* match, auto-accept, the user accepted, or certificate checks are ignored)
\* c.fingerprint equals the fingerprint the server presents.
C24_TrustedAdoptsPresented ==
    [][/\ lastOp'.op = "verify"
       /\ presented' = presented
       /\ lastOp'.trusted
       => fingerprint' = presented]_vars

\* the part of C24 that the code keeps: a client that neither ignores
\* certificates nor accepts them automatically (trusted by a match or by the
\* user's acceptance)
C24_MatchOrConsentAdoptsPresented ==
    [][/\ lastOp'.op = "verify"
       /\ presented' = presented
       /\ lastOp'.trusted
       /\ ~ignoreServerCertificate
       /\ ~acceptServerCertificate
       => fingerprint' = presented]_vars

\* a client that checks certificates meets a fingerprint file (absent, or
\* parsing) with no record for its server
FirstContact ==
    /\ ~ignoreServerCertificate
    /\ ~fpFile.exists \/ fpFile.valid
    /\ server \notin DOMAIN Recorded(fpFile)

\* c.fingerprint when the step's CheckFingerprint loads the file: a call has
\* set it to the presented fingerprint (line 343)
CurrentFingerprint(op) == IF op = "call" THEN presented ELSE fingerprint

\* every record of the file but this server's is as it was
OtherRecordsKept ==
    /\ DOMAIN Recorded(fpFile') = DOMAIN Recorded(fpFile) \cup {server}
    /\ \A k \in DOMAIN Recorded(fpFile) \ {server} :
           Recorded(fpFile')[k] = Recorded(fpFile)[k]

C26_ListOrderThenCombined ==
    /\ follow.shows <= 1
    /\ follow.pc = "multi" =>
          /\ follow.idx \in 1 .. follow.first.nTasks
          /\ Len(follow.ended) = follow.idx - 1
          /\ follow.shows = 0
    /\ follow.pc = "combined" \/ follow.shows = 1 =>
          Len(follow.ended) = follow.first.nTasks
    /\ follow.pc = "returned" /\ follow.entered = "multi" =>
          /\ follow.shows = 1
          /\ follow.ret = Returned(FALSE, "combined", checkTasksStatus(follow.combined))

\* C26: a call whose response carries a tasks list t1..tn polls each ti to
\* completion in list order, issues exactly one show-task for all the ids,
\* only after all n have completed, and returns that response after the
\* failed / partially-succeeded re-classification.
C26_EachTaskCompletedBeforeCombined ==
    /\ C26_ListOrderThenCombined
    /\ follow.pc = "combined" \/ follow.shows = 1 =>
          \A i \in 1 .. Len(follow.ended) : follow.ended[i] = "complete"

\* C27: a call enters the task poller if and only if waitForTask is set, the
\* command is not show-task, the response is successful and carries a
\* task-id or a non-empty tasks list; otherwise it returns its first
\* response and polls nothing; the show-task calls of the poller (command
\* show-task, waitForTask false) never enter it.
C27_PollerEntry ==
    /\ follow.answered =>
          (follow.entered # "none" <=>
              /\ follow.waitForTask
              /\ follow.command # "show-task"
              /\ follow.first.Success
              /\ \/ follow.first.hasTaskId
                 \/ follow.first.hasTasks /\ follow.first.nTasks > 0)
    /\ follow.answered /\ follow.entered = "none" =>
          /\ follow.pc = "returned"
          /\ follow.ret = Returned(FALSE, "first", EmptyResponse)
    /\ follow.entered = "none" =>
          /\ pcT = "idle"
          /\ nPolls = 0
          /\ follow.shows = 0
          /\ follow.ended = << >>
    /\ \A r \in FirstResponses, w \in BOOLEAN, c \in Commands :
          /\ followUp(w, "show-task", r) = "none"
          /\ followUp(FALSE, c, r) = "none"

\* C27 witness: a show-task call with waitForTask set returned its first
\* response, successful and carrying a task-id, as it was.
C27_Witness ==
    /\ follow.pc = "returned"
    /\ follow.command = "show-task"
    /\ follow.waitForTask
    /\ follow.first.Success
    /\ follow.first.hasTaskId
    /\ follow.ret.from = "first"

(***************************************************************************)
(* Further properties of the pagination engine (checked under SpecQuery).  *)
(***************************************************************************)
\* C28: when the first response lacks the container key, queryAll performs
\* exactly one round and returns the one-element sequence holding that
\* response as the server sent it, with no error, whatever its total and to.
C28_MissingKeyEndsAfterOneRound ==
    /\ [](finished =>
             /\ Len(qRequests) = 1
             /\ iterations = 0
             /\ ~apiRes.hasKey
             /\ serverResponse = << apiRes >>
             /\ allObjects = << >>
             /\ pcQ \in {"loop", "apiquery", "done"}
             /\ pcQ \in {"apiquery", "done"} => errOutput = "nil"
             /\ pcQ = "done" => queryErr = "nil")
    /\ [][pcQ = "start" =>
             /\ apiRes' \in {a.res : a \in Replies(0, srvObjects)}
             /\ finished' <=> ~apiRes'.hasKey
             /\ ~apiRes'.hasKey => serverResponse' = << apiRes' >>]_vars

\* C28 witness: the query returned after one round whose successful response
\* lacked the container key and carried a total different from its to.
C28_Witness ==
    /\ pcQ = "done"
    /\ finished
    /\ queryErr = "nil"
    /\ apiRes.Success
    /\ apiRes.to # NoTo
    /\ apiRes.total # apiRes.to

RECURSIVE ConcatFirst(_, _)
\* the concatenation of the first k sequences of ss
ConcatFirst(ss, k) == IF k = 0 THEN << >> ELSE ConcatFirst(ss, k - 1) \o ss[k]

\* C29: the k-th response of the sequence queryAll builds holds the
\* concatenation, in delivery order and with duplicates kept, of the objects
\* delivered in rounds 1..k; the returned sequence has one response per
\* round and its last response holds everything delivered.
C29_ResponsesHoldConcatenation ==
    /\ \A k \in 1 .. Len(serverResponse) :
          /\ k <= Len(qDelivered)
          /\ serverResponse[k].objects = ConcatFirst(qDelivered, k)
    /\ pcQ \in {"apiquery", "done"} /\ errOutput = "nil" =>
          /\ Len(serverResponse) = Len(qRequests)
          /\ Len(qDelivered) = Len(qRequests)
          /\ serverResponse[Len(serverResponse)].objects =
                 ConcatFirst(qDelivered, Len(qDelivered))

\* C29 witness: a query of three rounds returned; the server delivered its
\* first page twice.
C29_Witness ==
    /\ pcQ = "done"
    /\ queryErr = "nil"
    /\ Len(serverResponse) = 3
    /\ qDelivered[1] # << >>
    /\ qDelivered[2] = qDelivered[1]
    /\ Len(serverResponse[3].objects) > Len(serverResponse[2].objects)

\* a round's response with the container key and without to is being
\* examined by the loop
RoundWithoutTo ==
    /\ pcQ = "loop"
    /\ ~finished
    /\ apiRes.Success
    /\ apiRes.hasKey
    /\ apiRes.to = NoTo

\* C30: a round whose response has the container key but no to is the last
\* round if and only if its total is 0; otherwise the next offset is
\* requested, so a query whose responses all lack to and report a non-zero
\* total never leaves the loop.
C30_MissingToStopsOnlyOnZeroTotal ==
    /\ [](RoundWithoutTo =>
             /\ ENABLED QRoundLast <=> apiRes.total = 0
             /\ apiRes.total # 0 /\ iterations + 1 < MaxRounds => ENABLED QRoundMore
             /\ apiRes.total = 0 => ~ENABLED QRoundMore)
    /\ [][RoundWithoutTo =>
             IF apiRes.total = 0
             THEN pcQ' = "ret" /\ qRequests' = qRequests
             ELSE /\ qRequests' = Append(qRequests,
                                         [limit |-> Limit,
                                          offset |-> (iterations + 1) * Limit])
                  /\ pcQ' \in {"loop", "apiquery"}
                  /\ pcQ' = "apiquery" => errOutput' = "err"]_vars

\* C30 witness: the third round of a query against a server that holds
\* objects and has never reported to.
C30_Witness ==
    /\ RoundWithoutTo
    /\ srvObjects > 0
    /\ Len(qRequests) >= 3
    /\ \A k \in 1 .. Len(serverResponse) : serverResponse[k].to = NoTo

\* the part of C31 that the code keeps: a transport error of the show-task
\* for all the ids is not returned; the call returns a nil error and the
\* empty response APIResponse{}
C31_CombinedErrorNotReturned ==
    follow.pc = "returned" /\ follow.combinedErr =>
        /\ follow.entered = "multi"
        /\ follow.first.Success
        /\ ~follow.ret.err
        /\ follow.ret.resp = EmptyResponse

\* C31: when every task was polled to completion and the show-task for all
\* the ids then ends in a transport error, the call (whose own request was
\* answered with success) returns no error, and the response it returns is
\* not a failed one (success = false).
C31_CombinedErrorSwallowed ==
    /\ follow.pc = "returned"
    /\ follow.combinedErr
    /\ \A i \in 1 .. Len(follow.ended) : follow.ended[i] = "complete"
    => /\ ~follow.ret.err
       /\ follow.ret.resp.Success
====
